---- MODULE Spec2Model ----
(***************************************************************************)
(* Model of the fingerprint wallet backend (backend/server.js and the      *)
(* /transfer router): the WebAuthn challenge ceremony and the transfer     *)
(* ledger, with every store call (Supabase) as one atomic step and the     *)
(* JavaScript between two awaits as part of the step that follows the      *)
(* store call, except where that code touches the process-wide challenge   *)
(* cache: there the continuation is a step of its own.                     *)
(***************************************************************************)
EXTENDS Integers, Sequences, FiniteSets, TLC

\* ---------------------------------------------------------------- bounds
\* requests served in a run of the ledger, and of the ceremony
MaxTransfers == 2
MaxCeremonies == 4
MaxWalletOps == 2
MaxAssertions == 2
MaxMixed == 3

\* the requests that can be in flight together, and the values they carry
Slots == {1, 2}
Users == {"alice", "bob"}
CredIds == {"k1", "k2"}
Amounts == {-6000, 0, 500, 6000, 10000}

\* --------------------------------------------------- program constants
StartBalance == 10000

VARIABLES users, wallets, transactions, challenges, req, nreq

vars == <<users, wallets, transactions, challenges, req, nreq>>
store == <<users, wallets, transactions>>

\* ------------------------------------------------------------- helpers
NoCred == "none"
NoChallenge == [rid |-> 0, by |-> "none"]
NoResp == [status |-> 0]

\* generateWalletAddress: a string derived from the username
generateWalletAddress(username) == "0x" \o username

\* generateChallenge: 32 random bytes, never equal to an earlier one; the
\* request that draws it identifies it.
generateChallenge(rid, by) == [rid |-> rid, by |-> by]

\* a wallet row that starts empty whatever balance is asked for
WalletRow_ZeroBalance(balance, address, txs) ==
    [balance |-> 0, address |-> address, transactions |-> txs]

\* a row of the wallets table
WalletRow(balance, address, txs) ==
    [balance |-> balance, address |-> address, transactions |-> txs]

\* JavaScript truthiness of the body fields the handlers test
HasText(body, f) == f \in DOMAIN body /\ body[f] # ""
HasAmount(body) == "amount" \in DOMAIN body /\ body.amount # 0

\* .select('balance').eq('username', u).single(): the balance of the one
\* row, or an error (PGRST116) when there is no row or more than one; data
\* is never null without an error, so the handler's !senderWallet test
\* never decides
Single(rows) ==
    IF Len(rows) = 1 THEN [data |-> rows[1].balance, error |-> FALSE]
    ELSE [data |-> 0, error |-> TRUE]

\* .update({balance}).eq('username', u): every row of u gets the balance
UpdateBalance(w, u, b) ==
    [w EXCEPT ![u] = [i \in 1..Len(w[u]) |-> [w[u][i] EXCEPT !.balance = b]]]

\* the record of a request: where its handler stands (pc), its body, the
\* handler's locals, its response; and, for the claims, the store as the
\* request found it (pre), whether another request was in flight with it
\* (alone) and whether one of its store calls reported an error (failed)
IdleReq ==
    [pc |-> "idle", op |-> "none", rid |-> 0, body |-> [none |-> 0],
     senderBalance |-> 0, newReceiverBalance |-> 0,
     user |-> NoCred, dbError |-> FALSE, storedChallenge |-> NoChallenge,
     failed |-> FALSE, alone |-> TRUE,
     pre |-> [wallets |-> <<>>, transactions |-> <<>>, users |-> <<>>],
     resp |-> NoResp]

InFlight(s) == req[s].pc \notin {"idle", "done"}
\* a request is served on the first slot that is not serving one
CanBegin(s, max) ==
    /\ ~InFlight(s)
    /\ \A t \in Slots : t < s => InFlight(t)
    /\ nreq < max

\* a request arrives on slot s: the record the handler starts from
NewReq(s, op, body) ==
    [IdleReq EXCEPT !.op = op, !.rid = nreq + 1, !.body = body,
                    !.alone = \A t \in Slots \ {s} : ~InFlight(t),
                    !.pre = [wallets |-> wallets, transactions |-> transactions,
                             users |-> users]]

\* another request starts: the requests in flight are no longer alone
Arrive(s, r) ==
    [t \in Slots |-> IF t = s THEN r
                     ELSE IF InFlight(t) THEN [req[t] EXCEPT !.alone = FALSE]
                     ELSE req[t]]

\* the outcomes of a store call: it works, or the store reports an error
StoreOutcomes == BOOLEAN

Respond(r, status, text) ==
    [r EXCEPT !.pc = "done", !.resp = [status |-> status, text |-> text]]

\* -------------------------------------------------------- request bodies
\* amounts are JSON integers, so Number(amount) and parseInt(amount, 10)
\* are the amount itself; a field that is absent is undefined
TransferBodies ==
    { [sender |-> "alice", receiver |-> "bob", amount |-> n] : n \in Amounts }
    \cup { [sender |-> "bob", receiver |-> "alice", amount |-> n] :
              n \in Amounts \ {0} }
    \cup { [sender |-> "alice", receiver |-> "alice", amount |-> 500],
           [receiver |-> "bob", amount |-> 500],
           [sender |-> "alice", amount |-> 500],
           [sender |-> "alice", receiver |-> "bob"] }

\* ------------------------------------------------------------------ Init
\* the server starts with an empty challenge cache on a store in which
\* alice, or alice and bob, registered earlier (Credential k1, a wallet of
\* the starting balance)
Init ==
    /\ \E R \in {{"alice", "bob"}, {"alice"}} :
          /\ users = [u \in Users |-> IF u \in R THEN "k1" ELSE NoCred]
          /\ wallets = [u \in Users |->
                 IF u \in R
                 THEN << WalletRow(StartBalance, generateWalletAddress(u), <<>>) >>
                 ELSE <<>>]
    /\ transactions = <<>>
    /\ challenges = [u \in Users |-> NoChallenge]
    /\ req = [s \in Slots |-> IdleReq]
    /\ nreq = 0

\* ============================================== POST /api/wallet/send
\* validation, then the sender read is issued
SendValid(body) ==
    HasText(body, "sender") /\ HasText(body, "receiver") /\ HasAmount(body)

BeginSend(s, body) ==
    /\ CanBegin(s, MaxTransfers)
    /\ LET r == NewReq(s, "send", body) IN
         req' = Arrive(s,
                  IF ~SendValid(body)
                  THEN Respond(r, 400, "sender, receiver and amount are required")
                  ELSE [r EXCEPT !.pc = "send_fetchSender"])
    /\ nreq' = nreq + 1
    /\ UNCHANGED <<store, challenges>>

\* a check that also turns away a transfer of the whole balance
Insufficient_OrEqual(balance, amount) == balance <= amount

\* the balance check of the handler
Insufficient(balance, amount) == balance < amount

\* a sender read that records the transfer before the balance check
SendFetchSender_RecordsFirst(s) ==
    /\ req[s].pc = "send_fetchSender"
    /\ \E ok \in StoreOutcomes :
         LET r == req[s]
             q == Single(wallets[r.body.sender]) IN
         /\ req' = [req EXCEPT ![s] =
                   IF ~ok \/ q.error
                   THEN Respond([r EXCEPT !.failed = ~ok], 500, "Internal error")
                   ELSE IF Insufficient(q.data, r.body.amount)
                   THEN Respond(r, 400, "Insufficient balance")
                   ELSE [r EXCEPT !.pc = "send_deduct", !.senderBalance = q.data]]
         /\ transactions' = IF ok THEN Append(transactions,
                                 [sender |-> r.body.sender,
                                  receiver |-> r.body.receiver,
                                  amount |-> r.body.amount])
                            ELSE transactions
    /\ UNCHANGED <<users, wallets, challenges, nreq>>

\* select balance of the sender, then the check
SendFetchSender(s) ==
    /\ req[s].pc = "send_fetchSender"
    /\ \E ok \in StoreOutcomes :
         LET r == req[s]
             q == Single(wallets[r.body.sender]) IN
         req' = [req EXCEPT ![s] =
                   IF ~ok \/ q.error
                   THEN Respond([r EXCEPT !.failed = ~ok], 500, "Internal error")
                   ELSE IF Insufficient(q.data, r.body.amount)
                   THEN Respond(r, 400, "Insufficient balance")
                   ELSE [r EXCEPT !.pc = "send_deduct", !.senderBalance = q.data]]
    /\ UNCHANGED <<store, challenges, nreq>>

\* a debit that also drops the sender's pending challenge
SendDeduct_ClearsChallenge(s) ==
    /\ req[s].pc = "send_deduct"
    /\ \E ok \in StoreOutcomes :
         LET r == req[s] IN
         IF ok
         THEN /\ wallets' = UpdateBalance(wallets, r.body.sender,
                                          r.senderBalance - r.body.amount)
              /\ challenges' = [challenges EXCEPT ![r.body.sender] = NoChallenge]
              /\ req' = [req EXCEPT ![s] = [r EXCEPT !.pc = "send_fetchReceiver"]]
         ELSE /\ wallets' = wallets
              /\ challenges' = challenges
              /\ req' = [req EXCEPT ![s] =
                    Respond([r EXCEPT !.failed = TRUE], 500,
                            "Could not update sender balance")]
    /\ UNCHANGED <<users, transactions, nreq>>

\* update the sender's balance to the balance read minus the amount
SendDeduct(s) ==
    /\ req[s].pc = "send_deduct"
    /\ \E ok \in StoreOutcomes :
         LET r == req[s] IN
         IF ok
         THEN /\ wallets' = UpdateBalance(wallets, r.body.sender,
                                          r.senderBalance - r.body.amount)
              /\ req' = [req EXCEPT ![s] = [r EXCEPT !.pc = "send_fetchReceiver"]]
         ELSE /\ wallets' = wallets
              /\ req' = [req EXCEPT ![s] =
                    Respond([r EXCEPT !.failed = TRUE], 500,
                            "Could not update sender balance")]
    /\ UNCHANGED <<users, transactions, challenges, nreq>>

\* a receiver read that reuses the balance read for the sender when the
\* receiver is the sender
SendFetchReceiver_ReusesSenderRead(s) ==
    /\ req[s].pc = "send_fetchReceiver"
    /\ \E ok \in StoreOutcomes :
         LET r == req[s]
             q == Single(wallets[r.body.receiver])
             balance == IF r.body.receiver = r.body.sender
                        THEN r.senderBalance ELSE q.data IN
         req' = [req EXCEPT ![s] =
                   IF ~ok \/ q.error
                   THEN Respond([r EXCEPT !.failed = ~ok], 500, "Internal error")
                   ELSE [r EXCEPT !.pc = "send_add",
                                  !.newReceiverBalance = balance + r.body.amount]]
    /\ UNCHANGED <<store, challenges, nreq>>

\* select balance of the receiver; newReceiverBalance is computed from it
SendFetchReceiver(s) ==
    /\ req[s].pc = "send_fetchReceiver"
    /\ \E ok \in StoreOutcomes :
         LET r == req[s]
             q == Single(wallets[r.body.receiver]) IN
         req' = [req EXCEPT ![s] =
                   IF ~ok \/ q.error
                   THEN Respond([r EXCEPT !.failed = ~ok], 500, "Internal error")
                   ELSE [r EXCEPT !.pc = "send_add",
                                  !.newReceiverBalance = q.data + r.body.amount]]
    /\ UNCHANGED <<store, challenges, nreq>>

\* a credit that gives the sender the amount back when it fails
SendAdd_RollsBack(s) ==
    /\ req[s].pc = "send_add"
    /\ \E ok \in StoreOutcomes :
         LET r == req[s] IN
         IF ok
         THEN /\ wallets' = UpdateBalance(wallets, r.body.receiver,
                                          r.newReceiverBalance)
              /\ req' = [req EXCEPT ![s] = [r EXCEPT !.pc = "send_record"]]
         ELSE /\ wallets' = UpdateBalance(wallets, r.body.sender,
                                          r.senderBalance)
              /\ req' = [req EXCEPT ![s] =
                    Respond([r EXCEPT !.failed = TRUE], 500,
                            "Could not update receiver balance")]
    /\ UNCHANGED <<users, transactions, challenges, nreq>>

\* update the receiver's balance
SendAdd(s) ==
    /\ req[s].pc = "send_add"
    /\ \E ok \in StoreOutcomes :
         LET r == req[s] IN
         IF ok
         THEN /\ wallets' = UpdateBalance(wallets, r.body.receiver,
                                          r.newReceiverBalance)
              /\ req' = [req EXCEPT ![s] = [r EXCEPT !.pc = "send_record"]]
         ELSE /\ wallets' = wallets
              /\ req' = [req EXCEPT ![s] =
                    Respond([r EXCEPT !.failed = TRUE], 500,
                            "Could not update receiver balance")]
    /\ UNCHANGED <<users, transactions, challenges, nreq>>

TxRecord(body) ==
    [sender |-> body.sender, receiver |-> body.receiver, amount |-> body.amount]

\* a record write that puts the new record in place of the log
SendRecord_Rewrites(s) ==
    /\ req[s].pc = "send_record"
    /\ \E ok \in StoreOutcomes :
         LET r == req[s] IN
         /\ transactions' = IF ok THEN <<TxRecord(r.body)>> ELSE transactions
         /\ req' = [req EXCEPT ![s] =
               Respond([r EXCEPT !.failed = ~ok], 200, "Transfer completed")]
    /\ UNCHANGED <<users, wallets, challenges, nreq>>

\* a record write whose error fails the transfer
SendRecord_ErrorFails(s) ==
    /\ req[s].pc = "send_record"
    /\ \E ok \in StoreOutcomes :
         LET r == req[s] IN
         /\ transactions' = IF ok THEN Append(transactions, TxRecord(r.body))
                            ELSE transactions
         /\ req' = [req EXCEPT ![s] =
               IF ok THEN Respond(r, 200, "Transfer completed")
               ELSE Respond([r EXCEPT !.failed = TRUE], 500,
                            "Could not record transaction")]
    /\ UNCHANGED <<users, wallets, challenges, nreq>>

\* insert the transaction record; an error is logged only
SendRecord(s) ==
    /\ req[s].pc = "send_record"
    /\ \E ok \in StoreOutcomes :
         LET r == req[s] IN
         /\ transactions' = IF ok THEN Append(transactions, TxRecord(r.body))
                            ELSE transactions
         /\ req' = [req EXCEPT ![s] =
               Respond([r EXCEPT !.failed = ~ok], 200, "Transfer completed")]
    /\ UNCHANGED <<users, wallets, challenges, nreq>>

LedgerNext ==
    \E s \in Slots :
        \/ \E body \in TransferBodies : BeginSend(s, body)
        \/ SendFetchSender(s)
        \/ SendDeduct(s)
        \/ SendFetchReceiver(s)
        \/ SendAdd(s)
        \/ SendRecord(s)

SpecLedger == Init /\ [][LedgerNext]_vars

\* =================================================== POST /api/transfer
\* the router's two validation checks
TransferValid(body) ==
    /\ HasText(body, "sender") /\ HasText(body, "receiver")
    /\ "amount" \in DOMAIN body
    /\ ~(body.amount <= 0)

BeginTransfer(s, body) ==
    /\ CanBegin(s, MaxTransfers)
    /\ LET r == NewReq(s, "transfer", body) IN
         req' = Arrive(s,
                  IF ~(HasText(body, "sender") /\ HasText(body, "receiver")
                       /\ "amount" \in DOMAIN body)
                  THEN Respond(r, 400, "Missing required fields: sender, receiver, amount")
                  ELSE IF ~TransferValid(body)
                  THEN Respond(r, 400, "Amount must be positive")
                  ELSE [r EXCEPT !.pc = "transfer_rpc"])
    /\ nreq' = nreq + 1
    /\ UNCHANGED <<store, challenges>>

\* the SQL function transfer_funds: one atomic transfer in the store
TransferFunds(w, txs, body) ==
    IF Len(w[body.sender]) = 0
    THEN [success |-> FALSE, message |-> "Sender wallet not found",
          wallets |-> w, transactions |-> txs]
    ELSE IF w[body.sender][1].balance < body.amount
    THEN [success |-> FALSE, message |-> "Insufficient balance",
          wallets |-> w, transactions |-> txs]
    ELSE LET debited == UpdateBalance(w, body.sender,
                                      w[body.sender][1].balance - body.amount)
             credited ==
                 IF Len(debited[body.receiver]) = 0 THEN debited
                 ELSE UpdateBalance(debited, body.receiver,
                          debited[body.receiver][1].balance + body.amount)
         IN [success |-> TRUE, message |-> "Transfer completed",
             wallets |-> credited,
             transactions |-> Append(txs, TxRecord(body))]

\* supabase.rpc('transfer_funds', ...) and the handling of its result
TransferRpc(s) ==
    /\ req[s].pc = "transfer_rpc"
    /\ \E ok \in StoreOutcomes :
         LET r == req[s]
             result == TransferFunds(wallets, transactions, r.body) IN
         IF ~ok
         THEN /\ req' = [req EXCEPT ![s] =
                    Respond([r EXCEPT !.failed = TRUE], 500, "rpc error")]
              /\ UNCHANGED <<wallets, transactions>>
         ELSE /\ wallets' = result.wallets
              /\ transactions' = result.transactions
              /\ req' = [req EXCEPT ![s] =
                    Respond(r, IF result.success THEN 200 ELSE 400, result.message)]
    /\ UNCHANGED <<users, challenges, nreq>>

TransferNext ==
    \E s \in Slots :
        \/ \E body \in TransferBodies : BeginTransfer(s, body)
        \/ TransferRpc(s)

SpecTransfers == Init /\ [][LedgerNext \/ TransferNext]_vars

\* ====================================================== ledger claims
\* the request on slot s ran with no other request in flight, and none has
\* arrived since
Quiet(s) == req[s].alone /\ req[s].rid = nreq

SendDone(s) == req[s].op = "send" /\ req[s].pc = "done"
Succeeded(s) == req[s].pc = "done" /\ req[s].resp.status = 200
HasOneWallet(w, u) == Len(w[u]) = 1
Balance(w, u) == w[u][1].balance

\* C1: two transfers of 6000 from one sender whose balance is 10000, in
\* flight at the same time and with no other request, never both succeed.
C1_NoDoubleSpend ==
    \A s, t \in Slots :
        ( /\ s # t /\ nreq = 2
          /\ SendDone(s) /\ SendDone(t)
          /\ SendValid(req[s].body) /\ SendValid(req[t].body)
          /\ req[s].body.sender = req[t].body.sender
          /\ req[s].body.amount = 6000 /\ req[t].body.amount = 6000
          /\ req[s].rid = 1
          /\ HasOneWallet(req[s].pre.wallets, req[s].body.sender)
          /\ Balance(req[s].pre.wallets, req[s].body.sender) = 10000 )
        => ~(Succeeded(s) /\ Succeeded(t))

\* C2: no wallet balance is ever negative, whatever transfers are sent to
\* /wallet/send and however they interleave.
C2_BalancesNonNegative ==
    \A u \in Users : \A i \in 1..Len(wallets[u]) : wallets[u][i].balance >= 0

\* the step with which a transfer on slot s fails at the sender read, and
\* the step with which the handler took the request up
FailsAtSenderRead(s) ==
    /\ req[s].pc = "send_fetchSender"
    /\ req'[s].pc = "done"

TakenUp(s) ==
    /\ req[s].pc \in {"idle", "done"}
    /\ req'[s].pc = "send_fetchSender"

\* C3: a transfer that fails at the sender read (balance below the amount,
\* or no sender wallet) writes nothing: the step that rejects it, like the
\* step that accepted the request, leaves every wallet and the transaction
\* log as they were.
C3_FailedTransferWritesNothing ==
    [][\A s \in Slots :
          (FailsAtSenderRead(s) \/ TakenUp(s))
          => /\ wallets' = wallets
             /\ transactions' = transactions]_vars

C3_Witness ==
    \E s \in Slots :
        /\ SendDone(s)
        /\ req[s].resp = [status |-> 400, text |-> "Insufficient balance"]

\* a transfer between two distinct existing wallets, 0 < amount <= balance,
\* run to its end alone and with every store call succeeding
SoloTransfer(s) ==
    LET r == req[s] IN
    /\ SendDone(s) /\ Quiet(s) /\ ~r.failed
    /\ SendValid(r.body)
    /\ r.body.sender # r.body.receiver
    /\ HasOneWallet(r.pre.wallets, r.body.sender)
    /\ HasOneWallet(r.pre.wallets, r.body.receiver)
    /\ 0 < r.body.amount
    /\ r.body.amount <= Balance(r.pre.wallets, r.body.sender)

\* C4: such a transfer succeeds, moves exactly the amount from the sender
\* to the receiver and appends exactly one record {sender, receiver, amount}.
C4_TransferMovesAmount ==
    \A s \in Slots :
        SoloTransfer(s) =>
            LET r == req[s]
                a == r.body.sender
                b == r.body.receiver IN
            /\ r.resp.status = 200
            /\ HasOneWallet(wallets, a) /\ HasOneWallet(wallets, b)
            /\ Balance(wallets, a) = Balance(r.pre.wallets, a) - r.body.amount
            /\ Balance(wallets, b) = Balance(r.pre.wallets, b) + r.body.amount
            /\ transactions = Append(r.pre.transactions,
                    [sender |-> a, receiver |-> b, amount |-> r.body.amount])

\* the whole balance is sent and the sender is left at 0
C4_Witness ==
    \E s \in Slots :
        /\ SoloTransfer(s)
        /\ req[s].body.amount = Balance(req[s].pre.wallets, req[s].body.sender)
        /\ Balance(wallets, req[s].body.sender) = 0
        /\ Succeeded(s)

\* a body with a field missing or an amount <= 0
InvalidTransfer(body) ==
    \/ ~HasText(body, "sender")
    \/ ~HasText(body, "receiver")
    \/ "amount" \notin DOMAIN body
    \/ body.amount <= 0

\* C5: on both transfer endpoints a request with a missing field or an
\* amount <= 0 is answered 400 at once and never reaches a store call.
C5_InvalidTransferRejected ==
    \A s \in Slots :
        (req[s].op \in {"send", "transfer"} /\ InvalidTransfer(req[s].body))
        => /\ req[s].pc = "done"
           /\ req[s].resp.status = 400

\* ============================================ the credential ceremony
CeremonyStartBodies == { [username |-> u] : u \in Users \cup {""} }
CeremonyCompleteBodies ==
    { [username |-> u, credential |-> [id |-> c]] : u \in Users, c \in CredIds }
    \cup { [username |-> "alice"],
           [username |-> "", credential |-> [id |-> "k1"]] }

HasCredential(body) == "credential" \in DOMAIN body

\* a check that takes every username to have a pending challenge
ChallengePending_Always(cache, username) == TRUE

\* global.challenges?.[username] is truthy
ChallengePending(cache, username) == cache[username] # NoChallenge

\* a write that leaves a pending challenge in place
StoreChallenge_KeepsPending(cache, username, challenge) ==
    IF cache[username] # NoChallenge THEN cache
    ELSE [cache EXCEPT ![username] = challenge]

\* a write that starts the cache afresh
StoreChallenge_Resets(cache, username, challenge) ==
    [u \in DOMAIN cache |-> IF u = username THEN challenge ELSE NoChallenge]

\* global.challenges[username] = challenge
StoreChallenge(cache, username, challenge) ==
    [cache EXCEPT ![username] = challenge]

\* a clean-up that forgets to delete
DeleteChallenge_Keeps(cache, username) == cache

\* delete global.challenges[username]
DeleteChallenge(cache, username) == [cache EXCEPT ![username] = NoChallenge]

\* getUserByUsername: the row of the users table, or the store's error
getUserByUsername(username, ok) ==
    [data |-> IF ok THEN users[username] ELSE NoCred, error |-> ~ok]

\* options that leave the allow-list out
Options_NoAllowList(r, challenge, allow) ==
    [r EXCEPT !.pc = "done",
              !.resp = [status |-> 200, text |-> "options",
                        challenge |-> challenge, allowCredentials |-> <<>>]]

\* the options a begin* call answers with
Options(r, challenge, allow) ==
    [r EXCEPT !.pc = "done",
              !.resp = [status |-> 200, text |-> "options",
                        challenge |-> challenge, allowCredentials |-> allow]]

\* ------------------------------------------- POST /api/register/start
BeginRegisterStart(s, body) ==
    /\ CanBegin(s, MaxCeremonies)
    /\ LET r == NewReq(s, "registerStart", body) IN
         req' = Arrive(s,
                  IF ~HasText(body, "username")
                  THEN Respond(r, 400, "Username is required")
                  ELSE [r EXCEPT !.pc = "regstart_getUser"])
    /\ nreq' = nreq + 1
    /\ UNCHANGED <<store, challenges>>

RegStartGetUser(s) ==
    /\ req[s].pc = "regstart_getUser"
    /\ \E ok \in StoreOutcomes :
         LET r == req[s]
             q == getUserByUsername(r.body.username, ok) IN
         req' = [req EXCEPT ![s] =
                   [r EXCEPT !.pc = "regstart_cont", !.user = q.data,
                             !.dbError = q.error, !.failed = q.error]]
    /\ UNCHANGED <<store, challenges, nreq>>

\* after the lookup: duplicate check, then the challenge is cached.
\* maybeSingle() reports no error for a username without a row, so the
\* branch for a "no rows" error is not taken and an error is a store failure.
RegStartCont(s) ==
    /\ req[s].pc = "regstart_cont"
    /\ LET r == req[s]
           challenge == generateChallenge(r.rid, "register") IN
         IF r.dbError
         THEN /\ req' = [req EXCEPT ![s] = Respond(r, 500, "Database error")]
              /\ challenges' = challenges
         ELSE IF r.user # NoCred
         THEN /\ req' = [req EXCEPT ![s] = Respond(r, 400, "Username already exists")]
              /\ challenges' = challenges
         ELSE /\ challenges' = StoreChallenge(challenges, r.body.username, challenge)
              /\ req' = [req EXCEPT ![s] = Options(r, challenge, <<>>)]
    /\ UNCHANGED <<store, nreq>>

\* ---------------------------------------- POST /api/register/complete
\* validation and the challenge check, then the users insert is issued
BeginRegisterComplete(s, body) ==
    /\ CanBegin(s, MaxCeremonies)
    /\ LET r == NewReq(s, "registerComplete", body) IN
         req' = Arrive(s,
                  IF ~HasText(body, "username") \/ ~HasCredential(body)
                  THEN Respond(r, 400, "Username and credential are required")
                  ELSE IF ~ChallengePending(challenges, body.username)
                  THEN Respond(r, 400, "Invalid or expired challenge")
                  ELSE [r EXCEPT !.pc = "regcomp_insertUser",
                                 !.storedChallenge = challenges[body.username]])
    /\ nreq' = nreq + 1
    /\ UNCHANGED <<store, challenges>>

\* a users write that replaces the row of a registered username
RegCompInsertUser_Upserts(s) ==
    /\ req[s].pc = "regcomp_insertUser"
    /\ \E ok \in StoreOutcomes :
         LET r == req[s] IN
         IF ok
         THEN /\ users' = [users EXCEPT ![r.body.username] = r.body.credential.id]
              /\ req' = [req EXCEPT ![s] = [r EXCEPT !.pc = "regcomp_insertWallet"]]
         ELSE /\ users' = users
              /\ req' = [req EXCEPT ![s] =
                    Respond([r EXCEPT !.failed = TRUE], 500,
                            "Registration failed - user insert")]
    /\ UNCHANGED <<wallets, transactions, challenges, nreq>>

\* insert into users; username is UNIQUE, a second row is an error
RegCompInsertUser(s) ==
    /\ req[s].pc = "regcomp_insertUser"
    /\ \E ok \in StoreOutcomes :
         LET r == req[s] IN
         IF ok /\ users[r.body.username] = NoCred
         THEN /\ users' = [users EXCEPT ![r.body.username] = r.body.credential.id]
              /\ req' = [req EXCEPT ![s] = [r EXCEPT !.pc = "regcomp_insertWallet"]]
         ELSE /\ users' = users
              /\ req' = [req EXCEPT ![s] =
                    Respond([r EXCEPT !.failed = ~ok], 500,
                            "Registration failed - user insert")]
    /\ UNCHANGED <<wallets, transactions, challenges, nreq>>

\* a wallet insert that takes the Credential back when it fails
RegCompInsertWallet_RollsBack(s) ==
    /\ req[s].pc = "regcomp_insertWallet"
    /\ \E ok \in StoreOutcomes :
         LET r == req[s]
             u == r.body.username IN
         IF ok
         THEN /\ wallets' = [wallets EXCEPT ![u] =
                    Append(@, WalletRow(StartBalance, generateWalletAddress(u), <<>>))]
              /\ users' = users
              /\ req' = [req EXCEPT ![s] = [r EXCEPT !.pc = "regcomp_cont"]]
         ELSE /\ wallets' = wallets
              /\ users' = [users EXCEPT ![u] = NoCred]
              /\ req' = [req EXCEPT ![s] =
                    Respond([r EXCEPT !.failed = TRUE], 500,
                            "Registration failed - wallet creation")]
    /\ UNCHANGED <<transactions, challenges, nreq>>

\* insert the default wallet
RegCompInsertWallet(s) ==
    /\ req[s].pc = "regcomp_insertWallet"
    /\ \E ok \in StoreOutcomes :
         LET r == req[s]
             u == r.body.username IN
         IF ok
         THEN /\ wallets' = [wallets EXCEPT ![u] =
                    Append(@, WalletRow(StartBalance, generateWalletAddress(u), <<>>))]
              /\ req' = [req EXCEPT ![s] = [r EXCEPT !.pc = "regcomp_cont"]]
         ELSE /\ wallets' = wallets
              /\ req' = [req EXCEPT ![s] =
                    Respond([r EXCEPT !.failed = TRUE], 500,
                            "Registration failed - wallet creation")]
    /\ UNCHANGED <<users, transactions, challenges, nreq>>

\* a clean-up that ends without sending the answer
RegCompCont_NeverAnswers(s) ==
    /\ req[s].pc = "regcomp_cont"
    /\ challenges' = DeleteChallenge(challenges, req[s].body.username)
    /\ req' = [req EXCEPT ![s] = [req[s] EXCEPT !.pc = "regcomp_unanswered"]]
    /\ UNCHANGED <<store, nreq>>

\* clean up the challenge and answer
RegCompCont(s) ==
    /\ req[s].pc = "regcomp_cont"
    /\ challenges' = DeleteChallenge(challenges, req[s].body.username)
    /\ req' = [req EXCEPT ![s] =
          Respond(req[s], 200, "Fingerprint registered successfully!")]
    /\ UNCHANGED <<store, nreq>>

\* ---------------------------------------------- POST /api/login/start
BeginLoginStart(s, body) ==
    /\ CanBegin(s, MaxCeremonies)
    /\ LET r == NewReq(s, "loginStart", body) IN
         req' = Arrive(s,
                  IF ~HasText(body, "username")
                  THEN Respond(r, 400, "Username is required")
                  ELSE [r EXCEPT !.pc = "loginstart_getUser"])
    /\ nreq' = nreq + 1
    /\ UNCHANGED <<store, challenges>>

LoginStartGetUser(s) ==
    /\ req[s].pc = "loginstart_getUser"
    /\ \E ok \in StoreOutcomes :
         LET r == req[s]
             q == getUserByUsername(r.body.username, ok) IN
         req' = [req EXCEPT ![s] =
                   [r EXCEPT !.pc = "loginstart_cont", !.user = q.data,
                             !.dbError = q.error, !.failed = q.error]]
    /\ UNCHANGED <<store, challenges, nreq>>

LoginStartCont(s) ==
    /\ req[s].pc = "loginstart_cont"
    /\ LET r == req[s]
           challenge == generateChallenge(r.rid, "login") IN
         IF r.dbError
         THEN /\ req' = [req EXCEPT ![s] = Respond(r, 500, "Internal error")]
              /\ challenges' = challenges
         ELSE IF r.user = NoCred
         THEN /\ req' = [req EXCEPT ![s] = Respond(r, 404, "User not found")]
              /\ challenges' = challenges
         ELSE /\ challenges' = StoreChallenge(challenges, r.body.username, challenge)
              /\ req' = [req EXCEPT ![s] = Options(r, challenge, <<r.user>>)]
    /\ UNCHANGED <<store, nreq>>

\* ------------------------------------------- POST /api/login/complete
BeginLoginComplete(s, body) ==
    /\ CanBegin(s, MaxCeremonies)
    /\ LET r == NewReq(s, "loginComplete", body) IN
         req' = Arrive(s,
                  IF ~HasText(body, "username") \/ ~HasCredential(body)
                  THEN Respond(r, 400, "Username and credential are required")
                  ELSE [r EXCEPT !.pc = "logincomp_getUser"])
    /\ nreq' = nreq + 1
    /\ UNCHANGED <<store, challenges>>

LoginCompGetUser(s) ==
    /\ req[s].pc = "logincomp_getUser"
    /\ \E ok \in StoreOutcomes :
         LET r == req[s]
             q == getUserByUsername(r.body.username, ok) IN
         req' = [req EXCEPT ![s] =
                   [r EXCEPT !.pc = "logincomp_cont", !.user = q.data,
                             !.dbError = q.error, !.failed = q.error]]
    /\ UNCHANGED <<store, challenges, nreq>>

\* the checks with the challenge looked at before the user
LoginVerdict_ChallengeFirst(dbError, user, pending, credentialId) ==
    IF dbError THEN <<500, "Internal error">>
    ELSE IF ~pending THEN <<400, "Invalid or expired challenge">>
    ELSE IF user = NoCred THEN <<404, "User not found">>
    ELSE IF credentialId # user THEN <<401, "Authentication failed">>
    ELSE <<200, "Login successful!">>

\* the checks of the handler, in the order of the code, as
\* <<status, message>>
LoginVerdict(dbError, user, pending, credentialId) ==
    IF dbError THEN <<500, "Internal error">>
    ELSE IF user = NoCred THEN <<404, "User not found">>
    ELSE IF ~pending THEN <<400, "Invalid or expired challenge">>
    ELSE IF credentialId # user THEN <<401, "Authentication failed">>
    ELSE <<200, "Login successful!">>

\* a completion that deletes the challenge whatever the checks say
LoginCompCont_DeletesAlways(s) ==
    /\ req[s].pc = "logincomp_cont"
    /\ LET r == req[s]
           u == r.body.username
           v == LoginVerdict(r.dbError, r.user, ChallengePending(challenges, u),
                             r.body.credential.id)
       IN
         /\ req' = [req EXCEPT ![s] =
               Respond([r EXCEPT !.storedChallenge = challenges[u]], v[1], v[2])]
         /\ challenges' = DeleteChallenge(challenges, u)
    /\ UNCHANGED <<store, nreq>>

\* a completion that also wants the echoed challenge to be the cached one
LoginCompCont_ChecksEcho(s) ==
    /\ req[s].pc = "logincomp_cont"
    /\ LET r == req[s]
           u == r.body.username
           v == LoginVerdict(r.dbError, r.user, ChallengePending(challenges, u),
                             r.body.credential.id)
           w == IF v[1] = 200 /\ "response" \in DOMAIN r.body.credential
                              /\ r.body.credential.response.challenge # challenges[u]
                THEN <<401, "Authentication failed">> ELSE v
       IN
         /\ req' = [req EXCEPT ![s] =
               Respond([r EXCEPT !.storedChallenge = challenges[u]], w[1], w[2])]
         /\ challenges' = IF w[1] = 200
                          THEN DeleteChallenge(challenges, u)
                          ELSE challenges
    /\ UNCHANGED <<store, nreq>>

\* after the lookup: the checks, and on success the challenge is deleted
LoginCompCont(s) ==
    /\ req[s].pc = "logincomp_cont"
    /\ LET r == req[s]
           u == r.body.username
           v == LoginVerdict(r.dbError, r.user, ChallengePending(challenges, u),
                             r.body.credential.id)
       IN
         /\ req' = [req EXCEPT ![s] =
               Respond([r EXCEPT !.storedChallenge = challenges[u]], v[1], v[2])]
         /\ challenges' = IF v[1] = 200
                          THEN DeleteChallenge(challenges, u)
                          ELSE challenges
    /\ UNCHANGED <<store, nreq>>

CeremonyNext ==
    \E s \in Slots :
        \/ \E body \in CeremonyStartBodies : BeginRegisterStart(s, body)
        \/ RegStartGetUser(s)
        \/ RegStartCont(s)
        \/ \E body \in CeremonyCompleteBodies : BeginRegisterComplete(s, body)
        \/ RegCompInsertUser(s)
        \/ RegCompInsertWallet(s)
        \/ RegCompCont(s)
        \/ \E body \in CeremonyStartBodies : BeginLoginStart(s, body)
        \/ LoginStartGetUser(s)
        \/ LoginStartCont(s)
        \/ \E body \in CeremonyCompleteBodies : BeginLoginComplete(s, body)
        \/ LoginCompGetUser(s)
        \/ LoginCompCont(s)

SpecCeremony == Init /\ [][CeremonyNext]_vars

\* ==================================================== ceremony claims
\* the steps of the handlers that the claims speak about
Arrives(s, op) ==
    /\ req[s].pc \in {"idle", "done"}
    /\ req'[s].rid = nreq + 1
    /\ req'[s].op = op

LoginCompletes(s) == req[s].pc = "logincomp_cont" /\ req'[s].pc = "done"
RegStartContinues(s) == req[s].pc = "regstart_cont" /\ req'[s].pc = "done"
RegCompletes(s) == req[s].pc = "regcomp_cont" /\ req'[s].pc = "done"

LoginSucceeded(s) == req[s].op = "loginComplete" /\ Succeeded(s)
NoPendingChallenge == [status |-> 400, text |-> "Invalid or expired challenge"]

\* C6: a cached challenge serves at most one successful
\* completeAuthentication. A completion succeeds only on a cached challenge
\* and deletes it in the same step; a completion that runs while no
\* challenge is cached for the username never succeeds, and is answered
\* NoPendingChallenge when its lookup found the user; no two successful
\* completions have consumed the same challenge.
C6_ChallengeConsumedOnce ==
    /\ [](\A s, t \in Slots :
            (s # t /\ LoginSucceeded(s) /\ LoginSucceeded(t))
            => req[s].storedChallenge # req[t].storedChallenge)
    /\ [][\A s \in Slots :
            LoginCompletes(s) =>
              LET u == req[s].body.username IN
              /\ req'[s].resp.status = 200
                 => /\ challenges[u] # NoChallenge
                    /\ challenges'[u] = NoChallenge
                    /\ req'[s].storedChallenge = challenges[u]
              /\ challenges[u] = NoChallenge
                 => /\ req'[s].resp.status # 200
                    /\ (~req[s].dbError /\ req[s].user # NoCred)
                       => req'[s].resp = NoPendingChallenge]_vars

\* two completions in flight together with the same assertion: one succeeds,
\* the other is answered NoPendingChallenge
C6_Witness ==
    \E s, t \in Slots :
        /\ s # t
        /\ LoginSucceeded(s)
        /\ req[t].op = "loginComplete" /\ req[t].pc = "done"
        /\ req[t].body = req[s].body
        /\ req[t].resp = NoPendingChallenge

\* C7: completeAuthentication, once its user lookup has returned, answers
\* 404 when there is no Credential, otherwise 400 when no challenge is
\* cached, otherwise 401 when the asserted id differs from the stored
\* credentialId, and succeeds exactly when all three checks pass. The
\* Credential it judges by is the stored one (for a call that ran alone,
\* whether one exists or not).
C7_LoginCompleteChecks ==
    [][\A s \in Slots :
          (LoginCompletes(s) /\ ~req[s].dbError) =>
            LET r == req[s]
                u == r.body.username
                found == r.user # NoCred
                cached == challenges[u] # NoChallenge
                match == r.body.credential.id = users[u]
                resp == req'[s].resp
            IN
            /\ found => r.user = users[u]
            /\ r.alone => r.user = users[u]
            /\ ~found => resp = [status |-> 404, text |-> "User not found"]
            /\ (found /\ ~cached) => resp = NoPendingChallenge
            /\ (found /\ cached /\ ~match)
               => resp = [status |-> 401, text |-> "Authentication failed"]
            /\ (resp.status = 200) <=> (found /\ cached /\ match)]_vars

\* a completion turned away for a credential id that is not the stored one
C7_Witness ==
    \E s \in Slots :
        /\ req[s].op = "loginComplete" /\ req[s].pc = "done"
        /\ req[s].resp = [status |-> 401, text |-> "Authentication failed"]
        /\ req[s].body.credential.id # users[req[s].body.username]

\* C8: completeRegistration for a username with no cached challenge is
\* answered with the no-challenge error at once, whatever the credential,
\* and inserts neither a Credential nor a Wallet.
C8_NoChallengeNoRegistration ==
    [][\A s \in Slots :
          ( /\ Arrives(s, "registerComplete")
            /\ HasText(req'[s].body, "username")
            /\ HasCredential(req'[s].body)
            /\ challenges[req'[s].body.username] = NoChallenge )
          => /\ req'[s].pc = "done"
             /\ req'[s].resp = NoPendingChallenge
             /\ users' = users
             /\ wallets' = wallets]_vars

C8_Witness ==
    \E s \in Slots :
        /\ req[s].op = "registerComplete" /\ req[s].pc = "done"
        /\ HasCredential(req[s].body)
        /\ req[s].resp = NoPendingChallenge
        /\ users[req[s].body.username] = NoCred
        /\ wallets[req[s].body.username] = <<>>

\* C9: a beginRegistration whose lookup finds no Credential succeeds
\* whether or not a challenge is pending, and after it the cache holds
\* exactly the challenge it returned, a new one, with the other usernames'
\* entries untouched; a beginRegistration that arrived when the Credential
\* was already stored is answered with the duplicate-user error (its lookup
\* returning) and does not touch the cache.
C9_BeginRegistrationOverwrites ==
    [][\A s \in Slots :
          (RegStartContinues(s) /\ ~req[s].dbError) =>
            LET r == req[s]
                u == r.body.username
                resp == req'[s].resp
            IN
            /\ r.alone => r.user = users[u]
            /\ r.user = NoCred
               => /\ resp.status = 200
                  /\ challenges'[u] = resp.challenge
                  /\ challenges'[u] # NoChallenge
                  /\ challenges'[u] # challenges[u]
                  /\ \A v \in Users \ {u} : challenges'[v] = challenges[v]
            /\ r.pre.users[u] # NoCred
               => /\ resp = [status |-> 400, text |-> "Username already exists"]
                  /\ challenges' = challenges]_vars

\* two beginRegistration calls for one username in flight together: both
\* succeed and the cache holds the challenge of one of them
C9_Witness ==
    \E s, t \in Slots :
        /\ s # t
        /\ req[s].op = "registerStart" /\ req[t].op = "registerStart"
        /\ Succeeded(s) /\ Succeeded(t)
        /\ req[s].body = req[t].body
        /\ challenges[req[s].body.username] = req[t].resp.challenge
        /\ req[s].resp.challenge # req[t].resp.challenge

\* C10: the step that answers a completeRegistration with success leaves a
\* Credential whose credentialId is the supplied credential's id, one
\* Wallet for the username with balance 10000 and no transactions, and no
\* cached challenge for the username.
C10_RegistrationResult ==
    [][\A s \in Slots :
          RegCompletes(s) =>
            LET u == req[s].body.username IN
            /\ req'[s].resp.status = 200
            /\ users'[u] = req[s].body.credential.id
            /\ Len(wallets'[u]) = 1
            /\ wallets'[u][1].balance = 10000
            /\ wallets'[u][1].transactions = <<>>
            /\ challenges'[u] = NoChallenge]_vars

C10_Witness ==
    \E s \in Slots :
        /\ req[s].op = "registerComplete" /\ Succeeded(s)
        /\ users[req[s].body.username] = req[s].body.credential.id
        /\ Len(req[s].pre.wallets[req[s].body.username]) = 0
        /\ Len(wallets[req[s].body.username]) = 1
        /\ challenges[req[s].body.username] = NoChallenge

LoginStartContinues(s) == req[s].pc = "loginstart_cont" /\ req'[s].pc = "done"
UserNotFound == [status |-> 404, text |-> "User not found"]

\* C11: a beginAuthentication whose lookup finds no Credential is answered
\* UserNotFound and leaves the challenge cache as it was; one whose lookup
\* finds the Credential puts a new challenge in the cache for the username,
\* whatever was pending there, leaves the other usernames' entries alone,
\* and returns options whose challenge is the cached one and whose
\* allow-list is exactly the stored credentialId.
C11_BeginAuthentication ==
    [][\A s \in Slots :
          (LoginStartContinues(s) /\ ~req[s].dbError) =>
            LET r == req[s]
                u == r.body.username
                resp == req'[s].resp
            IN
            /\ r.alone => r.user = users[u]
            /\ r.user = NoCred
               => /\ resp = UserNotFound
                  /\ challenges' = challenges
            /\ r.user # NoCred
               => /\ resp.status = 200
                  /\ challenges'[u] = resp.challenge
                  /\ challenges'[u] # NoChallenge
                  /\ challenges'[u] # challenges[u]
                  /\ \A v \in Users \ {u} : challenges'[v] = challenges[v]
                  /\ resp.allowCredentials = <<users[u]>>]_vars

\* two beginAuthentication calls for one username: both are answered with
\* options, and the cache holds the challenge of the later one only
C11_Witness ==
    \E s, t \in Slots :
        /\ s # t
        /\ req[s].op = "loginStart" /\ req[t].op = "loginStart"
        /\ Succeeded(s) /\ Succeeded(t)
        /\ req[s].body = req[t].body
        /\ req[s].resp.challenge # req[t].resp.challenge
        /\ challenges[req[s].body.username] = req[t].resp.challenge
        /\ req[t].resp.allowCredentials = <<users[req[t].body.username]>>

\* C12: in every state a Credential exists for a username only if a Wallet
\* exists for that username, the states between the two inserts of a
\* completeRegistration and the states after a failed insert included.
C12_CredentialHasWallet ==
    \A u \in Users : users[u] # NoCred => Len(wallets[u]) >= 1

\* a completeRegistration whose users insert went through
Inserted(s) ==
    /\ req[s].op = "registerComplete"
    /\ \/ req[s].pc \in {"regcomp_insertWallet", "regcomp_cont"}
       \/ Succeeded(s)
       \/ req[s].pc = "done" /\ req[s].resp.text = "Registration failed - wallet creation"

\* C13: a Credential is created at most once per username and never
\* changed. A stored credentialId is left as it is by every step; the users
\* insert of a completeRegistration goes through only while the username has
\* no Credential, and stores the supplied one; a completeRegistration is
\* answered with success only after its own insert went through; and of two
\* completeRegistration calls for one username at most one has its insert
\* go through, so at most one returns success.
C13_CredentialCreatedOnce ==
    /\ [](\A s \in Slots :
            /\ (req[s].op = "registerComplete" /\ Succeeded(s)) => Inserted(s)
            /\ Inserted(s) =>
                 /\ users[req[s].body.username] = req[s].body.credential.id
                 /\ req[s].pre.users[req[s].body.username] = NoCred
                 /\ \A t \in Slots \ {s} :
                       ~(Inserted(t) /\ req[t].body.username = req[s].body.username))
    /\ [][/\ \A u \in Users : users[u] # NoCred => users'[u] = users[u]
          /\ \A s \in Slots :
               (req[s].pc = "regcomp_insertUser" /\ req'[s].pc = "regcomp_insertWallet")
               => /\ users[req[s].body.username] = NoCred
                  /\ users'[req[s].body.username] = req[s].body.credential.id
          /\ \A s \in Slots :
               (req'[s].op = "registerComplete" /\ req'[s].pc = "done"
                  /\ req'[s].resp.status = 200 /\ req[s].pc # "done")
               => RegCompletes(s)]_vars

\* two ceremonies for one unregistered username carrying different
\* credentials, both completions in flight together: one is answered with
\* success and its credential is the stored one, the other is refused at the
\* users insert
C13_Witness ==
    \E s, t \in Slots :
        /\ s # t
        /\ req[s].op = "registerComplete" /\ Succeeded(s)
        /\ req[t].op = "registerComplete" /\ req[t].pc = "done"
        /\ req[t].body.username = req[s].body.username
        /\ HasCredential(req[t].body)
        /\ req[t].body.credential.id # req[s].body.credential.id
        /\ req[t].resp = [status |-> 500, text |-> "Registration failed - user insert"]
        /\ ~req[t].failed
        /\ users[req[s].body.username] = req[s].body.credential.id

\* C14: the transaction log is append-only. Every step of every transfer
\* leaves the log as it is or adds one record at its end; the records
\* already in the log keep their place and their content.
C14_LogAppendOnly ==
    [][\/ transactions' = transactions
       \/ /\ Len(transactions') = Len(transactions) + 1
          /\ SubSeq(transactions', 1, Len(transactions)) = transactions
          /\ \E s \in Slots :
                transactions'[Len(transactions')] = TxRecord(req[s].body)]_vars

\* a second record was added behind the first
C14_Witness ==
    /\ Len(transactions) = 2
    /\ \E s \in Slots : Succeeded(s) /\ transactions[2] = TxRecord(req[s].body)

\* a valid transfer that ran on its own, with no store error, from a sender
\* with one wallet that covers the amount to a receiver without a wallet
ToAbsentReceiver(s) ==
    /\ SendDone(s) /\ Quiet(s) /\ ~req[s].failed
    /\ SendValid(req[s].body)
    /\ req[s].body.amount > 0
    /\ HasOneWallet(req[s].pre.wallets, req[s].body.sender)
    /\ req[s].body.amount <= Balance(req[s].pre.wallets, req[s].body.sender)
    /\ Len(req[s].pre.wallets[req[s].body.receiver]) = 0

\* C15: a transfer to a receiver who has no wallet takes the receiver's
\* balance to be 0 and carries on: it is answered with success, the sender
\* is debited and the transaction record is written.
C15_AbsentReceiverDefaultsToZero ==
    \A s \in Slots :
        ToAbsentReceiver(s) =>
            /\ Succeeded(s)
            /\ Balance(wallets, req[s].body.sender)
                 = Balance(req[s].pre.wallets, req[s].body.sender) - req[s].body.amount
            /\ transactions = Append(req[s].pre.transactions, TxRecord(req[s].body))

\* the transfer on slot s has debited the sender and not yet credited the
\* receiver; the step with which it fails there
AfterDebit(s) ==
    req[s].op = "send" /\ req[s].pc \in {"send_fetchReceiver", "send_add"}
FailsAfterDebit(s) == AfterDebit(s) /\ req'[s].pc = "done"
Debited(s) ==
    UpdateBalance(req[s].pre.wallets, req[s].body.sender,
        Balance(req[s].pre.wallets, req[s].body.sender) - req[s].body.amount)

\* C19: a transfer that fails at the receiver read or at the receiver
\* credit, after its debit, is answered with an error by a step that writes
\* nothing: the debit is not undone, the receiver is not credited and no
\* record is written. For a transfer running on its own the wallets are
\* then the ones it found with the sender debited by the amount, and the
\* log is the one it found.
C19_NoRollbackAfterDebit ==
    /\ [](\A s \in Slots :
            ( /\ Quiet(s)
              /\ \/ AfterDebit(s)
                 \/ /\ SendDone(s)
                    /\ req[s].resp.text = "Could not update receiver balance" )
            => /\ wallets = Debited(s)
               /\ transactions = req[s].pre.transactions)
    /\ [][\A s \in Slots :
            FailsAfterDebit(s) =>
              /\ req'[s].resp.status = 500
              /\ wallets' = wallets
              /\ transactions' = transactions]_vars

\* a transfer between two wallets whose credit failed: the sender is down
\* by the amount, the receiver has what it had, the log is as it was
C19_Witness ==
    \E s \in Slots :
        /\ SendDone(s) /\ Quiet(s)
        /\ req[s].resp = [status |-> 500, text |-> "Could not update receiver balance"]
        /\ req[s].body.sender # req[s].body.receiver
        /\ req[s].body.amount > 0
        /\ Balance(wallets, req[s].body.sender)
             = Balance(req[s].pre.wallets, req[s].body.sender) - req[s].body.amount
        /\ Balance(wallets, req[s].body.receiver)
             = Balance(req[s].pre.wallets, req[s].body.receiver)
        /\ transactions = req[s].pre.transactions

\* the step that ends a transfer after both balance writes
Records(s) == req[s].pc = "send_record" /\ req'[s].pc = "done"

\* C20: the step that ends a transfer after both balance writes answers
\* with success whether or not the record insert works, and leaves the
\* wallets alone: when the insert fails the log is unchanged, otherwise
\* exactly the record of the transfer is appended. No transfer is answered
\* with success by any other step. For a transfer between two wallets that
\* ran on its own and whose insert failed, the debit and the credit are in
\* the store and the log is the one it found.
C20_RecordFailureStillSuccess ==
    /\ [](\A s \in Slots :
            ( /\ SendDone(s) /\ Quiet(s) /\ Succeeded(s) /\ req[s].failed
              /\ req[s].body.sender # req[s].body.receiver )
            => LET r == req[s]
                   a == r.body.sender
                   b == r.body.receiver IN
               /\ Balance(wallets, a) = Balance(r.pre.wallets, a) - r.body.amount
               /\ Balance(wallets, b) = Balance(r.pre.wallets, b) + r.body.amount
               /\ transactions = r.pre.transactions)
    /\ [][\A s \in Slots :
            /\ Records(s) =>
                 /\ req'[s].resp = [status |-> 200, text |-> "Transfer completed"]
                 /\ wallets' = wallets
                 /\ req'[s].failed => transactions' = transactions
                 /\ ~req'[s].failed
                    => transactions' = Append(transactions, TxRecord(req[s].body))
            /\ (req'[s].op = "send" /\ Succeeded(s)' /\ ~SendDone(s))
               => Records(s)]_vars

\* a transfer answered with success whose record is not in the log
C20_Witness ==
    \E s \in Slots :
        /\ SendDone(s) /\ Quiet(s) /\ Succeeded(s) /\ req[s].failed
        /\ req[s].body.sender # req[s].body.receiver
        /\ req[s].body.amount > 0
        /\ transactions = req[s].pre.transactions
        /\ Balance(wallets, req[s].body.receiver)
             = Balance(req[s].pre.wallets, req[s].body.receiver) + req[s].body.amount

\* ============================================== the wallet endpoints
\* the bodies sent to /api/wallet/create: for bob every field given, the
\* address possibly the empty string and the balance possibly 0; for alice,
\* who has a wallet, one body; the username only; no username
SuppliedRecord == [sender |-> "alice", receiver |-> "bob", amount |-> 500]
CreateBodies ==
    { [username |-> "bob", balance |-> b, address |-> a, transactions |-> t] :
         b \in {0, 250}, a \in {"", "0xabc"},
         t \in {<<>>, <<SuppliedRecord>>} }
    \cup { [username |-> "alice", balance |-> 250, address |-> "0xabc",
            transactions |-> <<>>],
           [username |-> "bob"], [balance |-> 250] }

\* balance || 0
BalanceOrZero(body) ==
    IF "balance" \in DOMAIN body /\ body.balance # 0 THEN body.balance ELSE 0

\* a default that overrides the address of the body
AddressOrGenerated_Always(body) == generateWalletAddress(body.username)

\* address || generateWalletAddress(username)
AddressOrGenerated(body) ==
    IF HasText(body, "address") THEN body.address
    ELSE generateWalletAddress(body.username)

\* transactions || []: an array is truthy, the empty one too
TransactionsOrEmpty(body) ==
    IF "transactions" \in DOMAIN body THEN body.transactions ELSE <<>>

\* getWalletByUsername: .select('*').eq('username', u).maybeSingle(). data
\* holds the row when there is exactly one, and is null (no row here) when
\* there is none; more than one row is an error, like a store failure
getWalletByUsername(rows, ok) ==
    IF ~ok \/ Len(rows) > 1 THEN [data |-> <<>>, error |-> TRUE]
    ELSE [data |-> rows, error |-> FALSE]

\* the store as it is after registrations: alice has her Credential and
\* her wallet; bob has both, or his Credential without a wallet (his wallet
\* insert failed, see RegCompInsertWallet), or never registered
InitWallets ==
    /\ \E b \in {"full", "partial", "none"} :
          /\ users = [u \in Users |->
                 IF u = "bob" /\ b = "none" THEN NoCred ELSE "k1"]
          /\ wallets = [u \in Users |->
                 IF u = "bob" /\ b # "full" THEN <<>>
                 ELSE << WalletRow(StartBalance, generateWalletAddress(u), <<>>) >>]
    /\ transactions = <<>>
    /\ challenges = [u \in Users |-> NoChallenge]
    /\ req = [s \in Slots |-> IdleReq]
    /\ nreq = 0

\* ---------------------------------------------- GET /api/wallet/:username
BeginGetWallet(s, username) ==
    /\ CanBegin(s, MaxWalletOps)
    /\ req' = Arrive(s, [NewReq(s, "getWallet", [username |-> username])
                            EXCEPT !.pc = "get_wallet"])
    /\ nreq' = nreq + 1
    /\ UNCHANGED <<store, challenges>>

GetWallet(s) ==
    /\ req[s].pc = "get_wallet"
    /\ \E ok \in StoreOutcomes :
         LET r == req[s]
             q == getWalletByUsername(wallets[r.body.username], ok) IN
         req' = [req EXCEPT ![s] =
                   IF q.error
                   THEN Respond([r EXCEPT !.failed = ~ok], 500, "Internal error")
                   ELSE IF q.data = <<>>
                   THEN Respond(r, 404, "Wallet not found")
                   ELSE [r EXCEPT !.pc = "done",
                                  !.resp = [status |-> 200, text |-> "wallet",
                                            wallet |-> q.data]]]
    /\ UNCHANGED <<store, challenges, nreq>>

\* ---------------------------------------------- POST /api/wallet/create
BeginCreate(s, body) ==
    /\ CanBegin(s, MaxWalletOps)
    /\ LET r == NewReq(s, "createWallet", body) IN
         req' = Arrive(s,
                  IF ~HasText(body, "username")
                  THEN Respond(r, 400, "Username is required")
                  ELSE [r EXCEPT !.pc = "create_getWallet"])
    /\ nreq' = nreq + 1
    /\ UNCHANGED <<store, challenges>>

\* the duplicate check; the error of the read is not looked at
CreateGetWallet(s) ==
    /\ req[s].pc = "create_getWallet"
    /\ \E ok \in StoreOutcomes :
         LET r == req[s]
             q == getWalletByUsername(wallets[r.body.username], ok) IN
         req' = [req EXCEPT ![s] =
                   IF q.data # <<>>
                   THEN Respond(r, 400, "Wallet already exists")
                   ELSE [r EXCEPT !.pc = "create_insert"]]
    /\ UNCHANGED <<store, challenges, nreq>>

\* insert into wallets; username REFERENCES users(username), so a row for
\* a username without a users row is an error
CreateInsert(s) ==
    /\ req[s].pc = "create_insert"
    /\ \E ok \in StoreOutcomes :
         LET r == req[s]
             u == r.body.username IN
         IF ok /\ users[u] # NoCred
         THEN /\ wallets' = [wallets EXCEPT ![u] =
                    Append(@, WalletRow(BalanceOrZero(r.body),
                                        AddressOrGenerated(r.body),
                                        TransactionsOrEmpty(r.body)))]
              /\ req' = [req EXCEPT ![s] = [r EXCEPT !.pc = "create_readBack"]]
         ELSE /\ wallets' = wallets
              /\ req' = [req EXCEPT ![s] =
                    Respond([r EXCEPT !.failed = ~ok], 500,
                            "Could not create wallet")]
    /\ UNCHANGED <<users, transactions, challenges, nreq>>

\* the wallet is read again for the answer; an error leaves it null
CreateReadBack(s) ==
    /\ req[s].pc = "create_readBack"
    /\ \E ok \in StoreOutcomes :
         LET r == req[s]
             q == getWalletByUsername(wallets[r.body.username], ok) IN
         req' = [req EXCEPT ![s] =
                   [r EXCEPT !.pc = "done", !.failed = ~ok,
                             !.resp = [status |-> 200,
                                       text |-> "Wallet created successfully",
                                       wallet |-> q.data]]]
    /\ UNCHANGED <<store, challenges, nreq>>

WalletNext ==
    \E s \in Slots :
        \/ \E u \in Users : BeginGetWallet(s, u)
        \/ GetWallet(s)
        \/ \E body \in CreateBodies : BeginCreate(s, body)
        \/ CreateGetWallet(s)
        \/ CreateInsert(s)
        \/ CreateReadBack(s)

SpecWallets == InitWallets /\ [][WalletNext]_vars

\* ===================================================== wallet claims
\* a /wallet/create with explicit balance, address and transactions for a
\* username that had no wallet, run with no other request in flight, whose
\* insert went through
AllExplicit(body) == {"balance", "address", "transactions"} \subseteq DOMAIN body
Created(s) ==
    /\ req[s].op = "createWallet" /\ Quiet(s)
    /\ req[s].pc = "create_readBack" \/ Succeeded(s)
    /\ AllExplicit(req[s].body)
    /\ req[s].pre.wallets[req[s].body.username] = <<>>
Supplied(body) == WalletRow(body.balance, body.address, body.transactions)

\* the step with which GET /wallet/:username answers
Reads(s) == req[s].pc = "get_wallet" /\ req'[s].pc = "done"

CharAt(str, i) == SubSeq(str, i, i)

RECURSIVE IndexFrom(_, _, _)
\* the first position at or after i where ch stands, 0 when there is none
IndexFrom(str, ch, i) ==
    IF i > Len(str) THEN 0
    ELSE IF CharAt(str, i) = ch THEN i
    ELSE IndexFrom(str, ch, i + 1)

\* str.startsWith(prefix)
StartsWith(str, prefix) ==
    Len(str) >= Len(prefix) /\ SubSeq(str, 1, Len(prefix)) = prefix

\* str.substring(n)
Substring(str, n) == SubSeq(str, n + 1, Len(str))

\* str.split(sep)[0]: what stands before the first sep, all of str when
\* there is none
SplitFirst(str, sep) ==
    LET i == IndexFrom(str, sep, 1) IN
    IF i = 0 THEN str ELSE SubSeq(str, 1, i - 1)

UpperCase == "ABCDEFGHIJKLMNOPQRSTUVWXYZ"
LowerCase == "abcdefghijklmnopqrstuvwxyz"

RECURSIVE ToLowerCase(_)
ToLowerCase(str) ==
    IF str = "" THEN ""
    ELSE LET c == CharAt(str, 1)
             k == IndexFrom(UpperCase, c, 1) IN
         (IF k = 0 THEN c ELSE CharAt(LowerCase, k))
            \o ToLowerCase(Substring(str, 1))

RECURSIVE SkipSlashes(_)
SkipSlashes(str) ==
    IF StartsWith(str, "/") THEN SkipSlashes(Substring(str, 1)) ELSE str

\* the host of an authority: a bracketed address up to its bracket, else
\* what stands before the port
HostOf(authority) ==
    IF StartsWith(authority, "[")
    THEN SubSeq(authority, 1, IndexFrom(authority, "]", 1))
    ELSE SplitFirst(authority, ":")

SpecialSchemes == {"http", "https", "ws", "wss", "ftp"}

\* new URL(input).hostname: input needs a scheme; behind a special scheme
\* comes the authority, whose host must not be empty and is lowercased; a
\* URL of another scheme without "//" has no host. thrown stands for the
\* TypeError of an input that is not a URL
UrlHostname(input) ==
    LET c == IndexFrom(input, ":", 1)
        scheme == ToLowerCase(SubSeq(input, 1, c - 1))
        rest == Substring(input, c)
    IN
    IF c <= 1 THEN [thrown |-> TRUE, hostname |-> ""]
    ELSE IF scheme \in SpecialSchemes
    THEN LET host == HostOf(SplitFirst(SkipSlashes(rest), "/")) IN
         IF host = "" THEN [thrown |-> TRUE, hostname |-> ""]
         ELSE [thrown |-> FALSE, hostname |-> ToLowerCase(host)]
    ELSE IF StartsWith(rest, "//")
    THEN [thrown |-> FALSE,
          hostname |-> HostOf(SplitFirst(Substring(rest, 2), "/"))]
    ELSE [thrown |-> FALSE, hostname |-> ""]

\* localhost and 127.0.0.1 as they are, else without a leading "www."
RpIdOf(domain) ==
    IF domain = "localhost" \/ domain = "127.0.0.1" THEN domain
    ELSE IF StartsWith(domain, "www.") THEN Substring(domain, 4)
    ELSE domain

\* a resolver that strips the override like a header
getEffectiveDomain_StripsOverride(env, headers) ==
    LET host == IF HasText(headers, "host") THEN headers.host ELSE "localhost"
        url == UrlHostname(headers.origin)
    IN
    IF HasText(env, "WEBAUTHN_RP_ID") THEN RpIdOf(env.WEBAUTHN_RP_ID)
    ELSE IF HasText(headers, "origin") /\ ~url.thrown THEN RpIdOf(url.hostname)
    ELSE RpIdOf(SplitFirst(host, ":"))

\* getEffectiveDomain(req): env is process.env, headers the request's
getEffectiveDomain(env, headers) ==
    LET host == IF HasText(headers, "host") THEN headers.host ELSE "localhost"
        url == UrlHostname(headers.origin)
    IN
    IF HasText(env, "WEBAUTHN_RP_ID") THEN env.WEBAUTHN_RP_ID
    ELSE IF HasText(headers, "origin") /\ ~url.thrown THEN RpIdOf(url.hostname)
    ELSE RpIdOf(SplitFirst(host, ":"))

\* the values of process.env.WEBAUTHN_RP_ID (unset, empty, set) and of the
\* Origin and Host headers (each may be absent)
Environments ==
    { [v \in E |-> o] : E \in SUBSET {"WEBAUTHN_RP_ID"}, o \in {"", "www.rp.example"} }
OriginValues ==
    { "https://www.example.com", "http://localhost:3000",
      "http://127.0.0.1:3000", "https://Wallet.Example.com:8443", "null", "" }
HostValues ==
    { "localhost:3000", "www.example.com", "example.com:8080",
      "127.0.0.1:3000", "[::1]:3000" }
HeaderSets ==
    { [n \in D |-> IF n = "origin" THEN o ELSE h] :
         D \in SUBSET {"origin", "host"}, o \in OriginValues, h \in HostValues }

\* a request whose handler is about to resolve the relying-party domain
InitDomains ==
    /\ \E env \in Environments, headers \in HeaderSets :
          req = [s \in Slots |->
                   IF s = 1
                   THEN [IdleReq EXCEPT !.pc = "resolve", !.op = "rpId",
                                        !.body = [env |-> env, headers |-> headers]]
                   ELSE IdleReq]
    /\ users = [u \in Users |-> NoCred]
    /\ wallets = [u \in Users |-> <<>>]
    /\ transactions = <<>>
    /\ challenges = [u \in Users |-> NoChallenge]
    /\ nreq = 0

ResolveDomain(s) ==
    /\ req[s].pc = "resolve"
    /\ req' = [req EXCEPT ![s] =
          [req[s] EXCEPT !.pc = "done",
                         !.resp = [status |-> 200, text |-> "rpId",
                                   rpId |-> getEffectiveDomain(req[s].body.env,
                                                               req[s].body.headers)]]]
    /\ UNCHANGED <<store, challenges, nreq>>

DomainNext == \E s \in Slots : ResolveDomain(s)

SpecDomains == InitDomains /\ [][DomainNext]_vars

\* ===================================================== domain claims
Resolved(s) == req[s].op = "rpId" /\ req[s].pc = "done"
Override(s) == HasText(req[s].body.env, "WEBAUTHN_RP_ID")

\* C17: with an RP-ID override configured the resolver returns the override
\* as it is written, whatever the Origin and Host headers are, present,
\* absent or unparseable.
C17_OverrideVerbatim ==
    \A s \in Slots :
        (Resolved(s) /\ Override(s))
        => req[s].resp.rpId = req[s].body.env.WEBAUTHN_RP_ID

\* the override www.rp.example is returned with its www. while the Origin
\* header names another domain
C17_Witness ==
    \E s \in Slots :
        /\ Resolved(s)
        /\ req[s].body.env = [WEBAUTHN_RP_ID |-> "www.rp.example"]
        /\ req[s].body.headers = [origin |-> "https://www.example.com",
                                  host |-> "localhost:3000"]
        /\ req[s].resp.rpId = "www.rp.example"

\* what the headers of the model say, written out: the hostname of each
\* Origin value that is a URL, each Host value without its port, and each
\* of these names without a leading www.
OriginHostname(origin) ==
    CASE origin = "https://www.example.com" -> "www.example.com"
      [] origin = "http://localhost:3000" -> "localhost"
      [] origin = "http://127.0.0.1:3000" -> "127.0.0.1"
      [] origin = "https://Wallet.Example.com:8443" -> "wallet.example.com"
OriginParses(origin) == origin \notin {"null", ""}
HostWithoutPort(host) ==
    CASE host = "localhost:3000" -> "localhost"
      [] host = "www.example.com" -> "www.example.com"
      [] host = "example.com:8080" -> "example.com"
      [] host = "127.0.0.1:3000" -> "127.0.0.1"
      [] host = "[::1]:3000" -> "[::1]"
WithoutWww(name) ==
    IF name = "www.example.com" THEN "example.com" ELSE name

\* C18: with no override the resolver returns the hostname of the Origin
\* header when it is present and parseable, otherwise the Host header
\* without its port, otherwise localhost, in each case without a leading
\* www.; Origin https://www.example.com gives example.com whatever the
\* Host header is, and no Origin with Host localhost:3000 gives localhost.
C18_DomainFromHeaders ==
    \A s \in Slots :
        (Resolved(s) /\ ~Override(s)) =>
          LET h == req[s].body.headers
              rpId == req[s].resp.rpId
          IN
          IF "origin" \in DOMAIN h /\ OriginParses(h.origin)
          THEN rpId = WithoutWww(OriginHostname(h.origin))
          ELSE IF "host" \in DOMAIN h
          THEN rpId = WithoutWww(HostWithoutPort(h.host))
          ELSE rpId = "localhost"

\* ========================================= ceremony claims, continued
WalletInsertFailed ==
    [status |-> 500, text |-> "Registration failed - wallet creation"]
DuplicateUser == [status |-> 400, text |-> "Username already exists"]
FailsAtWalletInsert(s) ==
    req[s].pc = "regcomp_insertWallet" /\ req'[s].pc = "done"
Partial(us, ws, u) == us[u] # NoCred /\ ws[u] = <<>>
\* u has a Credential and no Wallet, and no wallet insert for u is pending
Stuck(u) ==
    /\ Partial(users, wallets, u)
    /\ \A s \in Slots :
          ~(req[s].pc = "regcomp_insertWallet" /\ req[s].body.username = u)

\* C21: a completeRegistration whose wallet insert fails is answered with
\* the store error by a step that writes nothing, so the Credential its
\* users insert stored stays and the username has no Wallet; no later step
\* of any request changes that; a beginRegistration that arrives for a
\* username with a Credential and no Wallet is never answered with options,
\* and is answered with the duplicate-user error when its lookup returns.
C21_PartialRegistrationSticks ==
    /\ [](\A s \in Slots :
            (req[s].pc = "done" /\ req[s].resp = WalletInsertFailed)
            => /\ users[req[s].body.username] = req[s].body.credential.id
               /\ wallets[req[s].body.username] = <<>>)
    /\ [][\A s \in Slots :
            /\ FailsAtWalletInsert(s) =>
                 /\ req'[s].resp = WalletInsertFailed
                 /\ users' = users /\ wallets' = wallets
            /\ FailsAtWalletInsert(s) => Stuck(req[s].body.username)'
            /\ \A u \in Users : Stuck(u) => Stuck(u)'
            /\ ( /\ RegStartContinues(s)
                 /\ Partial(req[s].pre.users, req[s].pre.wallets,
                            req[s].body.username) )
               => /\ req'[s].resp.status # 200
                  /\ challenges' = challenges
                  /\ ~req[s].dbError => req'[s].resp = DuplicateUser]_vars

\* a completeRegistration failed at the wallet insert, and a
\* beginRegistration that came afterwards got the duplicate-user error
C21_Witness ==
    \E s, t \in Slots :
        /\ s # t
        /\ req[s].op = "registerComplete" /\ req[s].pc = "done"
        /\ req[s].resp = WalletInsertFailed
        /\ req[t].op = "registerStart" /\ req[t].pc = "done"
        /\ req[t].rid > req[s].rid
        /\ req[t].body.username = req[s].body.username
        /\ Partial(req[t].pre.users, req[t].pre.wallets, req[t].body.username)
        /\ req[t].resp = DuplicateUser

\* the step with which a begin* call for u caches its challenge, and the
\* step with which a complete* call for u succeeds
BeginCaches(s, u) ==
    /\ RegStartContinues(s) \/ LoginStartContinues(s)
    /\ req[s].body.username = u
    /\ req'[s].resp.status = 200
    /\ challenges'[u] = req'[s].resp.challenge
CompleteConsumes(s, u) ==
    /\ RegCompletes(s) \/ LoginCompletes(s)
    /\ req[s].body.username = u
    /\ req'[s].resp.status = 200
    /\ challenges'[u] = NoChallenge

C23_LoginNeedsLoginChallenge ==
    \A s \in Slots :
        LoginSucceeded(s) => req[s].storedChallenge.by = "login"

\* the request on slot s takes a step: it arrives, or its handler goes on
Moves(s) == req'[s].pc # req[s].pc \/ req'[s].rid # req[s].rid
SuccessStep(s) ==
    Moves(s) /\ req'[s].pc = "done" /\ req'[s].resp.status = 200

\* C24: every step of a completeRegistration or completeAuthentication
\* call other than the one that answers it with success leaves the
\* challenge cache exactly as it was: the validation, the no-challenge
\* answer, both inserts whether they work or fail, the user lookup, and the
\* answers user not found and credential mismatch.
C24_ErrorKeepsChallenge ==
    [][\A s \in Slots :
          ( /\ Moves(s)
            /\ req'[s].op \in {"registerComplete", "loginComplete"}
            /\ ~SuccessStep(s) )
          => challenges' = challenges]_vars

\* a completeAuthentication refused for its credential, and another that
\* succeeded on the challenge issued before the refused one arrived
C24_Witness ==
    \E s, t \in Slots :
        /\ s # t
        /\ req[s].op = "loginComplete" /\ req[s].pc = "done"
        /\ req[s].resp = [status |-> 401, text |-> "Authentication failed"]
        /\ LoginSucceeded(t)
        /\ req[t].body.username = req[s].body.username
        /\ req[t].storedChallenge.rid < req[s].rid
        /\ req[t].storedChallenge = req[s].storedChallenge

\* ============================================ ledger claims, continued
\* every transfer sent so far is still on a slot, was a valid transfer of a
\* positive amount, has finished, and none of its store calls failed
AllFinishedWithoutStoreError ==
    /\ nreq >= 1
    /\ \A n \in 1..nreq : \E s \in Slots : req[s].rid = n
    /\ \A s \in Slots :
          req[s].rid > 0 =>
            /\ SendDone(s) /\ ~req[s].failed
            /\ SendValid(req[s].body) /\ req[s].body.amount > 0

\* C25: when alice and bob both have a wallet, once all transfers between
\* them have finished with every store call succeeding, the sum of the two
\* balances is what it was before they started, twice the starting balance.
C25_TransfersConserveTotal ==
    ( /\ AllFinishedWithoutStoreError
      /\ \A u \in Users : HasOneWallet(wallets, u) )
    => Balance(wallets, "alice") + Balance(wallets, "bob") = 2 * StartBalance

\* a transfer from a wallet to itself, 0 < amount <= balance, run to its end
\* alone and with every store call succeeding
SelfTransfer(s) ==
    LET r == req[s] IN
    /\ SendDone(s) /\ Quiet(s) /\ ~r.failed
    /\ SendValid(r.body)
    /\ r.body.sender = r.body.receiver
    /\ HasOneWallet(r.pre.wallets, r.body.sender)
    /\ 0 < r.body.amount
    /\ r.body.amount <= Balance(r.pre.wallets, r.body.sender)

\* C26: such a self-transfer is answered with success, leaves every wallet
\* as it found it, and appends one record whose sender and receiver are
\* both that username.
C26_SelfTransferAccepted ==
    \A s \in Slots :
        SelfTransfer(s) =>
            LET r == req[s]
                a == r.body.sender IN
            /\ r.resp.status = 200
            /\ wallets = r.pre.wallets
            /\ transactions = Append(r.pre.transactions,
                    [sender |-> a, receiver |-> a, amount |-> r.body.amount])

\* alice sent 500 to herself and is at the starting balance
C26_Witness ==
    \E s \in Slots :
        /\ SelfTransfer(s) /\ Succeeded(s)
        /\ Balance(wallets, req[s].body.sender) = StartBalance
        /\ transactions[Len(transactions)].sender
             = transactions[Len(transactions)].receiver

\* ================================================= the assertion's parts
\* completeAuthentication bodies whose credential carries, next to its id,
\* the authenticator's response: a signature and the client data with the
\* challenge the client echoes
IssuedChallenge == generateChallenge(0, "login")
OtherChallenge == generateChallenge(0, "forged")
AssertionBodies ==
    { [username |-> u,
       credential |-> [id |-> c,
                       response |-> [signature |-> g, challenge |-> e]]] :
         u \in Users, c \in CredIds, g \in {"sigA", "sigB"},
         e \in {IssuedChallenge, OtherChallenge} }

\* alice is registered; a beginAuthentication has cached IssuedChallenge
\* for her, or none was cached; bob is not registered, and a
\* beginRegistration may have cached a challenge for him
InitAssertions ==
    /\ users = [u \in Users |-> IF u = "alice" THEN "k1" ELSE NoCred]
    /\ wallets = [u \in Users |->
           IF u = "alice"
           THEN << WalletRow(StartBalance, generateWalletAddress(u), <<>>) >>
           ELSE <<>>]
    /\ transactions = <<>>
    /\ \E a \in {NoChallenge, IssuedChallenge},
          b \in {NoChallenge, generateChallenge(0, "register")} :
          challenges = [u \in Users |-> IF u = "alice" THEN a ELSE b]
    /\ req = [s \in Slots |-> IdleReq]
    /\ nreq = 0

BeginAssertion(s, body) ==
    nreq < MaxAssertions /\ BeginLoginComplete(s, body)

AssertionNext ==
    \E s \in Slots :
        \/ \E body \in AssertionBodies : BeginAssertion(s, body)
        \/ LoginCompGetUser(s)
        \/ LoginCompCont(s)

SpecAssertions == InitAssertions /\ [][AssertionNext]_vars

\* the answer to a completeAuthentication as the three facts decide it
ByTheThreeFacts(credentialExists, challengeCached, idMatches) ==
    IF ~credentialExists THEN UserNotFound
    ELSE IF ~challengeCached THEN NoPendingChallenge
    ELSE IF ~idMatches THEN [status |-> 401, text |-> "Authentication failed"]
    ELSE [status |-> 200, text |-> "Login successful!"]

MixedTransferBodies ==
    { [sender |-> "alice", receiver |-> "bob", amount |-> 500],
      [sender |-> "bob", receiver |-> "alice", amount |-> 500] }
MixedStartBodies == { [username |-> u] : u \in Users }
MixedCompleteBodies ==
    { [username |-> u, credential |-> [id |-> c]] : u \in Users, c \in CredIds }

MixedSend(s, body) == nreq < MaxMixed /\ BeginSend(s, body)
MixedRegisterStart(s, body) == nreq < MaxMixed /\ BeginRegisterStart(s, body)
MixedRegisterComplete(s, body) ==
    nreq < MaxMixed /\ BeginRegisterComplete(s, body)
MixedLoginStart(s, body) == nreq < MaxMixed /\ BeginLoginStart(s, body)
MixedLoginComplete(s, body) == nreq < MaxMixed /\ BeginLoginComplete(s, body)

MixedNext ==
    \E s \in Slots :
        \/ \E body \in MixedTransferBodies : MixedSend(s, body)
        \/ SendFetchSender(s)
        \/ SendDeduct(s)
        \/ SendFetchReceiver(s)
        \/ SendAdd(s)
        \/ SendRecord(s)
        \/ \E body \in MixedStartBodies : MixedRegisterStart(s, body)
        \/ RegStartGetUser(s)
        \/ RegStartCont(s)
        \/ \E body \in MixedCompleteBodies : MixedRegisterComplete(s, body)
        \/ RegCompInsertUser(s)
        \/ RegCompInsertWallet(s)
        \/ RegCompCont(s)
        \/ \E body \in MixedStartBodies : MixedLoginStart(s, body)
        \/ LoginStartGetUser(s)
        \/ LoginStartCont(s)
        \/ \E body \in MixedCompleteBodies : MixedLoginComplete(s, body)
        \/ LoginCompGetUser(s)
        \/ LoginCompCont(s)

SpecMixed == Init /\ [][MixedNext]_vars

CeremonyOps == {"registerStart", "registerComplete", "loginStart", "loginComplete"}

\* the answer to a valid transfer that ran alone with every store call
\* succeeding, as the wallets it found decide it
ByTheWallets(w, body) ==
    IF ~HasOneWallet(w, body.sender)
    THEN [status |-> 500, text |-> "Internal error"]
    ELSE IF Balance(w, body.sender) < body.amount
    THEN [status |-> 400, text |-> "Insufficient balance"]
    ELSE IF ~HasOneWallet(w, body.receiver)
    THEN [status |-> 500, text |-> "Internal error"]
    ELSE [status |-> 200, text |-> "Transfer completed"]

\* C28: every step of a begin* or complete* call leaves the transaction
\* log and every existing wallet as they were; every step of a transfer
\* leaves the challenge cache and every Credential as they were; and the
\* answer to a transfer that ran alone with every store call succeeding is
\* the one the wallets it found decide, whatever the sender's Credential
\* and cached challenge are.
C28_CeremonyAndLedgerApart ==
    /\ [](\A s \in Slots :
            (SendDone(s) /\ Quiet(s) /\ ~req[s].failed /\ SendValid(req[s].body))
            => req[s].resp = ByTheWallets(req[s].pre.wallets, req[s].body))
    /\ [][\A s \in Slots :
            /\ (Moves(s) /\ req'[s].op \in CeremonyOps)
               => /\ transactions' = transactions
                  /\ \A u \in Users : wallets[u] # <<>> => wallets'[u] = wallets[u]
            /\ (Moves(s) /\ req'[s].op = "send")
               => /\ challenges' = challenges
                  /\ users' = users]_vars

\* alice began an authentication and never completed it; her transfer, sent
\* afterwards, succeeded and her challenge is still cached
C28_Witness ==
    \E s \in Slots :
        /\ SendDone(s) /\ Quiet(s) /\ Succeeded(s)
        /\ challenges[req[s].body.sender] # NoChallenge
        /\ challenges[req[s].body.sender].by = "login"
        /\ challenges[req[s].body.sender].rid < req[s].rid

HandlerStep(s) ==
    \/ SendFetchSender(s) \/ SendDeduct(s) \/ SendFetchReceiver(s)
    \/ SendAdd(s) \/ SendRecord(s)
    \/ RegStartGetUser(s) \/ RegStartCont(s)
    \/ RegCompInsertUser(s) \/ RegCompInsertWallet(s) \/ RegCompCont(s)
    \/ LoginStartGetUser(s) \/ LoginStartCont(s)
    \/ LoginCompGetUser(s) \/ LoginCompCont(s)

\* every store call returns in the end, and the event loop runs every
\* continuation that is ready
SpecMixedFair ==
    Init /\ [][MixedNext]_vars /\ \A s \in Slots : WF_vars(HandlerStep(s))

\* C30: every ceremony and transfer request is answered in the end,
\* whatever else is served in between, and it is answered once: a request
\* in flight has no answer yet, a finished one has an answer, and its
\* record is not touched again until another request is taken up.
C30_EveryRequestAnswered ==
    /\ \A s \in Slots : InFlight(s) ~> (req[s].pc = "done")
    /\ [](\A s \in Slots :
            /\ InFlight(s) => req[s].resp = NoResp
            /\ req[s].pc = "done" => req[s].resp.status \in {200, 400, 401, 404, 500})
    /\ [][\A s \in Slots :
            (req[s].pc = "done" /\ req'[s].rid = req[s].rid)
            => req'[s] = req[s]]_vars

\* a transfer and a completeRegistration served together, both answered
C30_Witness ==
    \E s, t \in Slots :
        /\ s # t
        /\ SendDone(s) /\ ~req[s].alone
        /\ req[t].op = "registerComplete" /\ Succeeded(t) /\ ~req[t].alone

====
